---- MODULE Spec2Model ----
(***************************************************************************)
(* Object code output of the Z80 macro assembler (z80asm/z80aout.c):       *)
(* obj_header, obj_org, obj_writeb, obj_fill, obj_fill_value, obj_end and  *)
(* their helpers fill_bin, flush_hex, eof_hex, hex_record, btoh, chksum    *)
(* and asmerr.                                                             *)
(***************************************************************************)
EXTENDS Integers, Sequences, FiniteSets, TLC

(* ---------------------------------------------------------------- *)
(* Program constants                                                *)
(* ---------------------------------------------------------------- *)
\* WORD is an unsigned 16 bit quantity, BYTE an unsigned 8 bit one
WordMod == 65536
ByteMod == 256
\* indices into errmsg[]
E_NOERR == 0
E_NSQWRT == 9
E_BFRORG == 19
\* Intel hex record types
HEX_DATA == 0
HEX_EOF == 1
\* sentinel written by fill_bin and marker of the MOS header
FILL_BYTE == 255
\* object file formats
OBJ_BIN == "BIN"
OBJ_MOS == "MOS"
OBJ_HEX == "HEX"

(* ---------------------------------------------------------------- *)
(* Bounds of the model                                              *)
(* ---------------------------------------------------------------- *)
\* number of obj_org/obj_writeb/obj_fill/obj_fill_value calls of a run that
\* writes a binary file
MaxOps == 5
\* the same, of a run that writes Intel hex
MaxHexOps == 4
\* capacity of hex_buf (MAXHEX), upper limit of hexlen
MaxHexLen == 2
\* longest binary object file that is explored
MaxFile == 7

\* addresses the front end hands to obj_org
OrgAddrs == {0, 1, 3, 65534, 65535}
\* load addresses (-l option)
LoadAddrs == {3, 65535}
\* fill values handed to obj_fill_value (a WORD)
FillVals == {427}
\* contents of ops[0 .. op_cnt-1]: op_cnt bytes, all different
OpsSeqs == {<<>>, <<17>>, <<18, 34>>}
\* counts handed to obj_fill and obj_fill_value
Counts == {0, 1, 2}

VARIABLES
    obj_fmt,        \* selected object file format
    load_flag,      \* load address given
    load_addr,      \* the load address
    nofill_flag,    \* don't fill up the binary file at the end
    hexlen,         \* maximum number of bytes of a hex record
    start_addr,     \* start address for the hex end-of-file record
    pass,           \* pass of the assembler the calls are made in
    nseq_flag,      \* flag for non-sequential ORG
    curr_addr,      \* current logical file address
    bin_addr,       \* current address written to file
    hex_addr,       \* current address in hex record
    hex_cnt,        \* number of bytes in hex buffer
    hex_buf,        \* buffer for one hex record
    objfp,          \* the object file: the sequence of bytes written to it
    errors,         \* error counter
    errnum,         \* error number of the current line (pass 2)
    errfp,          \* error numbers of the messages printed (pass 1)
    pc,             \* position of the code generator: start, gen, done
    nops,           \* number of calls made so far
    objsrc,         \* per byte of objfp: logical address it was written for,
                    \* -1 for a fill_bin byte, -2 for a header byte
    supplied,       \* <<address, byte>> of every byte handed to
                    \* obj_writeb / obj_fill_value, in call order
    maxaddr,        \* highest value curr_addr had so far
    mono,           \* no obj_org has moved curr_addr backwards and
                    \* curr_addr has not wrapped round
    lastop          \* the call that led to this state

cfgvars == <<obj_fmt, load_flag, load_addr, nofill_flag, hexlen, start_addr, pass>>
vars == <<obj_fmt, load_flag, load_addr, nofill_flag, hexlen, start_addr, pass,
          nseq_flag, curr_addr, bin_addr, hex_addr, hex_cnt, hex_buf, objfp,
          errors, errnum, errfp, pc, nops, objsrc, supplied, maxaddr, mono,
          lastop>>

(* ---------------------------------------------------------------- *)
(* Helpers                                                          *)
(* ---------------------------------------------------------------- *)
\* n copies of x
Rep(n, x) == [i \in 1..n |-> x]

\* WORD += n
WordAdd(w, n) == (w + n) % WordMod

\* mutant of BeforeLoad: <= in place of <
BeforeLoadIncl(bin) == load_flag /\ bin <= load_addr

\* the expression load_flag && (bin_addr < load_addr)
BeforeLoad(bin) == load_flag /\ bin < load_addr

\* mutant of FillCount: the loop stops one byte early
FillCountShort(bin, cur) == IF bin < cur - 1 THEN cur - bin - 1 ELSE 0

\* number of 0xff bytes fill_bin writes: while (bin_addr < curr_addr)
FillCount(bin, cur) == IF bin < cur THEN cur - bin ELSE 0

\* mutant of NseqAfterOrg: <= in place of <
NseqAfterOrgIncl(addr, cur) == addr <= cur

\* nseq_flag = (addr < curr_addr)
NseqAfterOrg(addr, cur) == addr < cur

\* logical addresses of n bytes starting at a
AddrsFrom(a, n) == [i \in 1..n |-> WordAdd(a, i - 1)]

\* one hex digit: c + (c < 10 ? '0' : '7')
HexDigit(c) == c + (IF c < 10 THEN 48 ELSE 55)

\* btoh: BYTE as two ASCII hex digits
Btoh(b) == <<HexDigit((b % ByteMod) \div 16), HexDigit((b % ByteMod) % 16)>>

RECURSIVE SumBytes(_)
SumBytes(s) == IF s = <<>> THEN 0 ELSE (Head(s) + SumBytes(Tail(s))) % ByteMod

\* mutant of Chksum: the record type is left out of the sum
ChksumNoType(rec_type, cnt, addr, data) ==
    LET sum == ((cnt % ByteMod) + ((addr \div ByteMod) % ByteMod)
                + (addr % ByteMod) + SumBytes(data)) % ByteMod
    IN  (ByteMod - sum) % ByteMod

\* chksum: two's complement of the BYTE sum of the record fields
Chksum(rec_type, cnt, addr, data) ==
    LET sum == ((cnt % ByteMod) + ((addr \div ByteMod) % ByteMod)
                + (addr % ByteMod) + rec_type + SumBytes(data)) % ByteMod
    IN  (ByteMod - sum) % ByteMod

RECURSIVE BtohAll(_)
BtohAll(s) == IF s = <<>> THEN <<>> ELSE Btoh(Head(s)) \o BtohAll(Tail(s))

\* hex_record: the ASCII line of one record; data = hex_buf[0 .. hex_cnt-1]
HexRecord(rec_type, cnt, addr, data) ==
    <<58>> \o Btoh(cnt) \o Btoh(addr \div ByteMod) \o Btoh(addr % ByteMod)
           \o Btoh(rec_type) \o BtohAll(data)
           \o Btoh(Chksum(rec_type, cnt, addr, data)) \o <<10>>

\* mutant of BufData: the last byte of hex_buf is left out
BufDataShort(buf, cnt) == [i \in 1..(cnt - 1) |-> buf[i - 1]]

\* hex_buf[0 .. cnt-1]
BufData(buf, cnt) == [i \in 1..cnt |-> buf[i - 1]]

\* the hex encoder's state as a record
HexState == [addr |-> hex_addr, cnt |-> hex_cnt, buf |-> hex_buf,
             cur |-> curr_addr, out |-> objfp]

\* mutant of FlushHex: hex_addr = curr_addr only when nothing was waiting
FlushHexKeepAddr(h) ==
    IF h.cnt # 0
    THEN [h EXCEPT !.out = h.out \o HexRecord(HEX_DATA, h.cnt, h.addr, BufData(h.buf, h.cnt)),
                   !.cnt = 0]
    ELSE [h EXCEPT !.addr = h.cur]

\* flush_hex
FlushHex(h) ==
    IF h.cnt # 0
    THEN [h EXCEPT !.out = h.out \o HexRecord(HEX_DATA, h.cnt, h.addr, BufData(h.buf, h.cnt)),
                   !.cnt = 0,
                   !.addr = h.cur]
    ELSE [h EXCEPT !.addr = h.cur]

\* mutant of HexPutByte: flush_hex one byte early
HexPutByteEarly(h, b) ==
    LET f == IF h.cnt >= hexlen - 1 THEN FlushHex(h) ELSE h
    IN  [f EXCEPT !.buf = [f.buf EXCEPT ![f.cnt] = b % ByteMod],
                  !.cnt = WordAdd(f.cnt, 1),
                  !.cur = WordAdd(f.cur, 1)]

\* one round of the loop of obj_writeb / obj_fill_value for OBJ_HEX
HexPutByte(h, b) ==
    LET f == IF h.cnt >= hexlen THEN FlushHex(h) ELSE h
    IN  [f EXCEPT !.buf = [f.buf EXCEPT ![f.cnt] = b % ByteMod],
                  !.cnt = WordAdd(f.cnt, 1),
                  !.cur = WordAdd(f.cur, 1)]

RECURSIVE HexPutAll(_, _)
HexPutAll(h, data) ==
    IF data = <<>> THEN h ELSE HexPutAll(HexPutByte(h, Head(data)), Tail(data))

\* mutant of HexWrite: no flush_hex when curr_addr has moved
HexWriteNoFlush(h, data) == HexPutAll(h, data)

\* the OBJ_HEX case of obj_writeb / obj_fill_value
HexWrite(h, data) ==
    HexPutAll(IF h.addr + h.cnt # h.cur THEN FlushHex(h) ELSE h, data)

\* eof_hex
EofHex(h, addr) ==
    [h EXCEPT !.cnt = 0, !.addr = addr,
              !.out = h.out \o HexRecord(HEX_EOF, 0, addr, <<>>)]

\* room left in the explored part of the object file
Fits(n) == Len(objfp) + n <= MaxFile

(* ---------------------------------------------------------------- *)
(* Initial states                                                   *)
(* ---------------------------------------------------------------- *)
InitState ==
    /\ nseq_flag = FALSE
    /\ curr_addr = 0
    /\ bin_addr = 0
    /\ hex_addr = 0
    /\ hex_cnt = 0
    /\ hex_buf = [i \in 0..(MaxHexLen - 1) |-> 0]
    /\ objfp = <<>>
    /\ errors = 0
    /\ errnum = E_NOERR
    /\ errfp = <<>>
    /\ pc = "start"
    /\ nops = 0
    /\ objsrc = <<>>
    /\ supplied = <<>>
    /\ maxaddr = 0
    /\ mono = TRUE
    /\ lastop = [op |-> "none", cnt |-> 0]

\* runs that write a binary file (OBJ_BIN, OBJ_MOS)
InitBin ==
    /\ obj_fmt \in {OBJ_BIN, OBJ_MOS}
    /\ load_flag \in BOOLEAN
    /\ load_addr \in (IF load_flag THEN LoadAddrs ELSE {0})
    /\ nofill_flag \in BOOLEAN
    /\ hexlen = MaxHexLen
    /\ start_addr = 0
    /\ pass = 2
    /\ InitState

\* runs that write Intel hex (OBJ_HEX): without load address and with start
\* address 0, or with load address 3 and start address 0xabcd
InitHex ==
    /\ obj_fmt = OBJ_HEX
    /\ load_flag \in BOOLEAN
    /\ load_addr = (IF load_flag THEN 3 ELSE 0)
    /\ nofill_flag = FALSE
    /\ hexlen \in 1..MaxHexLen
    /\ start_addr = (IF load_flag THEN 43981 ELSE 0)
    /\ pass = 2
    /\ InitState

(* ---------------------------------------------------------------- *)
(* asmerr                                                           *)
(* ---------------------------------------------------------------- *)
AsmErr(i) ==
    /\ errors' = errors + 1
    /\ IF pass = 1
       THEN errfp' = Append(errfp, i) /\ UNCHANGED errnum
       ELSE errnum' = i /\ UNCHANGED errfp

NoErr == UNCHANGED <<errors, errnum, errfp>>

(* ---------------------------------------------------------------- *)
(* obj_header                                                       *)
(* ---------------------------------------------------------------- *)
ObjHeader ==
    /\ pc = "start"
    /\ pc' = "gen"
    /\ IF obj_fmt = OBJ_MOS
       THEN /\ objfp' = objfp \o <<FILL_BYTE, load_addr % ByteMod, load_addr \div ByteMod>>
            /\ objsrc' = objsrc \o Rep(3, -2)
       ELSE UNCHANGED <<objfp, objsrc>>
    /\ lastop' = [op |-> "header", cnt |-> 0]
    /\ NoErr
    /\ UNCHANGED <<nseq_flag, curr_addr, bin_addr, hex_addr, hex_cnt, hex_buf,
                   nops, supplied, maxaddr, mono>>
    /\ UNCHANGED cfgvars

\* the calls of the code generator between obj_header and obj_end
Gen == pc = "gen" /\ nops < (IF obj_fmt = OBJ_HEX THEN MaxHexOps ELSE MaxOps)

Max(a, b) == IF a > b THEN a ELSE b

Called(op, cnt) ==
    /\ nops' = nops + 1
    /\ lastop' = [op |-> op, cnt |-> cnt]
    /\ maxaddr' = Max(maxaddr, curr_addr')
    /\ mono' = (mono /\ IF op = "org" THEN curr_addr' >= curr_addr
                                    ELSE curr_addr + cnt < WordMod)
    /\ UNCHANGED pc
    /\ UNCHANGED cfgvars

(* ---------------------------------------------------------------- *)
(* obj_org                                                          *)
(* ---------------------------------------------------------------- *)
\* mutant of OrgBinAddr: the load address test is left out
OrgBinAddrAlways(addr) == addr

\* bin_addr after obj_org(addr), OBJ_BIN / OBJ_MOS
OrgBinAddr(addr) == IF BeforeLoad(bin_addr) THEN addr ELSE bin_addr

\* mutant of OrgIsBin: case OBJ_HEX shares the code of OBJ_BIN / OBJ_MOS
OrgIsBinAlways == TRUE

\* switch (obj_fmt) of obj_org: case OBJ_BIN, case OBJ_MOS
OrgIsBin == obj_fmt \in {OBJ_BIN, OBJ_MOS}

ObjOrg(addr) ==
    /\ Gen
    /\ IF OrgIsBin
       THEN /\ nseq_flag' = NseqAfterOrg(addr, curr_addr)
            /\ bin_addr' = OrgBinAddr(addr)
            /\ curr_addr' = addr
       ELSE /\ curr_addr' = addr
            /\ UNCHANGED <<nseq_flag, bin_addr>>
    /\ NoErr
    /\ UNCHANGED <<hex_addr, hex_cnt, hex_buf, objfp, objsrc, supplied>>
    /\ Called("org", 0)

(* ---------------------------------------------------------------- *)
(* obj_writeb                                                       *)
(* ---------------------------------------------------------------- *)
\* mutant of WritebBin: fwrite of op_cnt - 1 bytes
WritebBinShort(data) ==
    LET gap == FillCount(bin_addr, curr_addr)
    IN  [out |-> objfp \o Rep(gap, FILL_BYTE) \o SubSeq(data, 1, Len(data) - 1),
         src |-> objsrc \o Rep(gap, -1) \o AddrsFrom(curr_addr, Len(data) - 1),
         bin |-> WordAdd(WordAdd(bin_addr, gap), Len(data))]

\* fill_bin(); fwrite(ops, 1, op_cnt, objfp); bin_addr += op_cnt
WritebBin(data) ==
    LET gap == FillCount(bin_addr, curr_addr)
    IN  [out |-> objfp \o Rep(gap, FILL_BYTE) \o data,
         src |-> objsrc \o Rep(gap, -1) \o AddrsFrom(curr_addr, Len(data)),
         bin |-> WordAdd(WordAdd(bin_addr, gap), Len(data))]

\* mutant of WritebCurr: curr_addr += op_cnt outside the else
WritebCurrAlways(n) == WordAdd(curr_addr, n)

\* curr_addr after obj_writeb, OBJ_BIN / OBJ_MOS: curr_addr += op_cnt is
\* inside the else of if (nseq_flag)
WritebCurr(n) == IF nseq_flag THEN curr_addr ELSE WordAdd(curr_addr, n)

\* the OBJ_HEX case of obj_writeb
WritebHex(data) == HexWrite(HexState, data)

\* what the caller handed over, with the logical address of each byte
Handed(data) == [i \in 1..Len(data) |-> <<WordAdd(curr_addr, i - 1), data[i]>>]

\* the body of obj_writeb
WritebBody(data) ==
    /\ supplied' = supplied \o Handed(data)
    /\ IF Len(data) = 0
       THEN /\ NoErr
            /\ UNCHANGED <<nseq_flag, curr_addr, bin_addr, hex_addr, hex_cnt,
                           hex_buf, objfp, objsrc>>
       ELSE IF obj_fmt \in {OBJ_BIN, OBJ_MOS}
       THEN /\ curr_addr' = WritebCurr(Len(data))
            /\ UNCHANGED <<nseq_flag, hex_addr, hex_cnt, hex_buf>>
            /\ IF nseq_flag
               THEN /\ AsmErr(E_NSQWRT)
                    /\ UNCHANGED <<bin_addr, objfp, objsrc>>
               ELSE IF BeforeLoad(bin_addr)
               THEN /\ AsmErr(E_BFRORG)
                    /\ UNCHANGED <<bin_addr, objfp, objsrc>>
               ELSE /\ Fits(FillCount(bin_addr, curr_addr) + Len(data))
                    /\ objfp' = WritebBin(data).out
                    /\ objsrc' = WritebBin(data).src
                    /\ bin_addr' = WritebBin(data).bin
                    /\ NoErr
       ELSE /\ hex_addr' = WritebHex(data).addr
            /\ hex_cnt' = WritebHex(data).cnt
            /\ hex_buf' = WritebHex(data).buf
            /\ curr_addr' = WritebHex(data).cur
            /\ objfp' = WritebHex(data).out
            /\ NoErr
            /\ UNCHANGED <<nseq_flag, bin_addr, objsrc>>

ObjWriteb(data) ==
    /\ Gen
    /\ WritebBody(data)
    /\ Called("writeb", Len(data))

(* ---------------------------------------------------------------- *)
(* obj_fill                                                         *)
(* ---------------------------------------------------------------- *)
\* mutant of ObjFill: curr_addr += count also when nseq_flag is set
ObjFillNoLatch(count) ==
    /\ Gen
    /\ curr_addr' = WordAdd(curr_addr, count)
    /\ NoErr
    /\ UNCHANGED <<nseq_flag, bin_addr, hex_addr, hex_cnt, hex_buf, objfp,
                   objsrc, supplied>>
    /\ Called("fill", count)

ObjFill(count) ==
    /\ Gen
    /\ IF count = 0
       THEN UNCHANGED curr_addr
       ELSE IF obj_fmt \in {OBJ_BIN, OBJ_MOS}
       THEN IF ~nseq_flag
            THEN curr_addr' = WordAdd(curr_addr, count)
            ELSE UNCHANGED curr_addr
       ELSE curr_addr' = WordAdd(curr_addr, count)
    /\ NoErr
    /\ UNCHANGED <<nseq_flag, bin_addr, hex_addr, hex_cnt, hex_buf, objfp,
                   objsrc, supplied>>
    /\ Called("fill", count)

(* ---------------------------------------------------------------- *)
(* obj_fill_value                                                   *)
(* ---------------------------------------------------------------- *)
\* mutant of FillValueBin: the value is written as it is, not as a BYTE
FillValueBinWord(count, value) ==
    LET gap == FillCount(bin_addr, curr_addr)
    IN  [out |-> objfp \o Rep(gap, FILL_BYTE) \o Rep(count, value),
         src |-> objsrc \o Rep(gap, -1) \o AddrsFrom(curr_addr, count),
         bin |-> WordAdd(WordAdd(bin_addr, gap), count)]

\* fill_bin(); while (n-- > 0) putc(value, objfp); bin_addr += count
FillValueBin(count, value) ==
    LET gap == FillCount(bin_addr, curr_addr)
    IN  [out |-> objfp \o Rep(gap, FILL_BYTE) \o Rep(count, value % ByteMod),
         src |-> objsrc \o Rep(gap, -1) \o AddrsFrom(curr_addr, count),
         bin |-> WordAdd(WordAdd(bin_addr, gap), count)]

\* curr_addr after obj_fill_value, OBJ_BIN / OBJ_MOS
FillValueCurr(count) == IF nseq_flag THEN curr_addr ELSE WordAdd(curr_addr, count)

\* the OBJ_HEX case of obj_fill_value
FillValueHex(count, value) == HexWrite(HexState, Rep(count, value))

ObjFillValue(count, value) ==
    /\ Gen
    /\ supplied' = supplied \o Handed(Rep(count, value % ByteMod))
    /\ IF count = 0
       THEN /\ NoErr
            /\ UNCHANGED <<nseq_flag, curr_addr, bin_addr, hex_addr, hex_cnt,
                           hex_buf, objfp, objsrc>>
       ELSE IF obj_fmt \in {OBJ_BIN, OBJ_MOS}
       THEN /\ curr_addr' = FillValueCurr(count)
            /\ UNCHANGED <<nseq_flag, hex_addr, hex_cnt, hex_buf>>
            /\ IF nseq_flag
               THEN /\ AsmErr(E_NSQWRT)
                    /\ UNCHANGED <<bin_addr, objfp, objsrc>>
               ELSE IF BeforeLoad(bin_addr)
               THEN /\ AsmErr(E_BFRORG)
                    /\ UNCHANGED <<bin_addr, objfp, objsrc>>
               ELSE /\ Fits(FillCount(bin_addr, curr_addr) + count)
                    /\ objfp' = FillValueBin(count, value).out
                    /\ objsrc' = FillValueBin(count, value).src
                    /\ bin_addr' = FillValueBin(count, value).bin
                    /\ NoErr
       ELSE /\ hex_addr' = FillValueHex(count, value).addr
            /\ hex_cnt' = FillValueHex(count, value).cnt
            /\ hex_buf' = FillValueHex(count, value).buf
            /\ curr_addr' = FillValueHex(count, value).cur
            /\ objfp' = FillValueHex(count, value).out
            /\ NoErr
            /\ UNCHANGED <<nseq_flag, bin_addr, objsrc>>
    /\ Called("fill_value", count)

(* ---------------------------------------------------------------- *)
(* obj_end                                                          *)
(* ---------------------------------------------------------------- *)
\* mutant of EndFills: nofill_flag is not looked at
EndFillsAnyway == ~BeforeLoad(bin_addr)

\* mutant of EndFills: the load address test is left out
EndFillsNoGate == ~nofill_flag

\* !nofill_flag && !(load_flag && (bin_addr < load_addr))
EndFills == ~nofill_flag /\ ~BeforeLoad(bin_addr)

\* mutant of EndHex: eof_hex without flush_hex
EndHexNoFlush == EofHex(HexState, start_addr)

\* flush_hex(); eof_hex(start_addr)
EndHex == EofHex(FlushHex(HexState), start_addr)

ObjEnd ==
    /\ pc = "gen"
    /\ pc' = "done"
    /\ lastop' = [op |-> "end", cnt |-> 0]
    /\ IF obj_fmt \in {OBJ_BIN, OBJ_MOS}
       THEN IF EndFills
            THEN /\ Fits(FillCount(bin_addr, curr_addr))
                 /\ objfp' = objfp \o Rep(FillCount(bin_addr, curr_addr), FILL_BYTE)
                 /\ objsrc' = objsrc \o Rep(FillCount(bin_addr, curr_addr), -1)
                 /\ bin_addr' = WordAdd(bin_addr, FillCount(bin_addr, curr_addr))
                 /\ UNCHANGED <<hex_addr, hex_cnt, hex_buf, curr_addr>>
            ELSE UNCHANGED <<hex_addr, hex_cnt, hex_buf, curr_addr, objfp, objsrc,
                             bin_addr>>
       ELSE /\ hex_addr' = EndHex.addr
            /\ hex_cnt' = EndHex.cnt
            /\ hex_buf' = EndHex.buf
            /\ curr_addr' = EndHex.cur
            /\ objfp' = EndHex.out
            /\ UNCHANGED <<bin_addr, objsrc>>
    /\ NoErr
    /\ UNCHANGED <<nseq_flag, nops, supplied, maxaddr, mono>>
    /\ UNCHANGED cfgvars

(* ---------------------------------------------------------------- *)
(* The code generator: obj_header, any calls, obj_end               *)
(* ---------------------------------------------------------------- *)
Next ==
    \/ ObjHeader
    \/ \E addr \in OrgAddrs : ObjOrg(addr)
    \/ \E data \in OpsSeqs : ObjWriteb(data)
    \/ \E count \in Counts : ObjFill(count)
    \/ \E count \in Counts, value \in FillVals : ObjFillValue(count, value)
    \/ ObjEnd

\* runs in any of the three formats
Init == InitBin \/ InitHex

Spec == Init /\ [][Next]_vars
SpecBin == InitBin /\ [][Next]_vars
SpecHex == InitHex /\ [][Next]_vars

(* ---------------------------------------------------------------- *)
(* Reading the object file back                                     *)
(* ---------------------------------------------------------------- *)
IsBinFmt == obj_fmt \in {OBJ_BIN, OBJ_MOS}

\* bytes of a binary file that obj_writeb / obj_fill_value wrote, each with
\* the logical address it was written for, in file order
PayloadBin ==
    SelectSeq([i \in 1..Len(objfp) |-> <<objsrc[i], objfp[i]>>],
              LAMBDA p : p[1] >= 0)

\* value of one ASCII hex digit
Unhex(c) == IF c >= 65 THEN c - 55 ELSE c - 48

\* the lines of a text file, without their line feeds
RECURSIVE LinesFrom(_, _, _)
LinesFrom(f, from, i) ==
    IF i > Len(f) THEN <<>>
    ELSE IF f[i] = 10 THEN <<SubSeq(f, from, i - 1)>> \o LinesFrom(f, i + 1, i + 1)
    ELSE LinesFrom(f, from, i + 1)

Lines(f) == LinesFrom(f, 1, 1)

\* the binary fields of one record line ":CCAAAATTDD..SS"
LineBytes(l) == [i \in 1..((Len(l) - 1) \div 2) |-> 16 * Unhex(l[2 * i]) + Unhex(l[2 * i + 1])]

\* a record line as count, address, type, payload, checksum
ParseLine(l) ==
    LET b == LineBytes(l)
    IN  [colon |-> l[1] = 58 /\ Len(l) = 2 * Len(b) + 1,
         cnt |-> b[1], addr |-> b[2] * ByteMod + b[3], type |-> b[4],
         data |-> SubSeq(b, 5, Len(b) - 1), sum |-> b[Len(b)]]

\* the records of a hex file, in file order
RecordsOf(f) == LET ls == Lines(f) IN [k \in 1..Len(ls) |-> ParseLine(ls[k])]

Records == RecordsOf(objfp)

\* payload bytes of the data records with their addresses, in file order
RECURSIVE PayloadOf(_)
PayloadOf(recs) ==
    IF recs = <<>> THEN <<>>
    ELSE (IF Head(recs).type = HEX_DATA
          THEN [k \in 1..Len(Head(recs).data) |->
                    <<WordAdd(Head(recs).addr, k - 1), Head(recs).data[k]>>]
          ELSE <<>>) \o PayloadOf(Tail(recs))

Payload == IF IsBinFmt THEN PayloadBin ELSE PayloadOf(Records)

\* byte sum of all fields of a record, checksum included
FieldSum(r) ==
    (r.cnt + (r.addr \div ByteMod) + (r.addr % ByteMod) + r.type + SumBytes(r.data) + r.sum)
        % ByteMod

(* ---------------------------------------------------------------- *)
(* C1                                                               *)
(* ---------------------------------------------------------------- *)
\* C1 as stated: in every format, after obj_end of a run whose addresses only
\* went up, the payload of the object file, in address order, is exactly the
\* bytes handed to obj_writeb / obj_fill_value.
C1_AsStated == (pc = "done" /\ mono) => Payload = supplied

\* C1 amended: the same, for runs in which no write was rejected with
\* "object code before ORG" (E_BFRORG).
C1_PayloadIsSupplied == (pc = "done" /\ mono /\ errors = 0) => Payload = supplied

C1_Witness ==
    /\ pc = "done" /\ mono /\ errors = 0
    /\ obj_fmt = OBJ_MOS /\ load_flag
    /\ Len(supplied) >= 3
    /\ \E i \in 1..Len(objsrc) : objsrc[i] = -1
    /\ Payload = supplied

(* ---------------------------------------------------------------- *)
(* C2                                                               *)
(* ---------------------------------------------------------------- *)
\* C2: OBJ_BIN without load address: every byte obj_writeb / obj_fill_value
\* appends lands at the file offset equal to its logical address.
C2_OffsetIsAddress ==
    (obj_fmt = OBJ_BIN /\ ~load_flag) =>
        \A i \in 1..Len(objfp) : objsrc[i] >= 0 => objsrc[i] = i - 1

(* ---------------------------------------------------------------- *)
(* C3                                                               *)
(* ---------------------------------------------------------------- *)
RawFilled == obj_fmt = OBJ_BIN /\ ~load_flag /\ ~nofill_flag /\ pc = "done"

FillIsFF == \A i \in 1..Len(objfp) : objsrc[i] < 0 => objfp[i] = FILL_BYTE

\* C3 as stated: OBJ_BIN, filling on, no load address: after obj_end the file
\* is as long as the highest logical address reached, and every offset not
\* written by obj_writeb / obj_fill_value holds 0xff.
C3_AsStated == RawFilled => (Len(objfp) = maxaddr /\ FillIsFF)

\* C3 amended: the length is the larger of bin_addr and curr_addr at obj_end;
\* it is the highest logical address reached when no obj_org went backwards.
C3_Length ==
    RawFilled =>
        /\ Len(objfp) = Max(bin_addr, curr_addr)
        /\ mono => Len(objfp) = maxaddr
        /\ FillIsFF

C3_Witness ==
    /\ RawFilled /\ mono
    /\ Len(objfp) = maxaddr /\ maxaddr >= 4
    /\ \E i \in 1..Len(objsrc) : objsrc[i] = -1 /\ i < Len(objsrc)
    /\ objsrc[Len(objsrc)] = -1
    /\ Len(supplied) >= 2

(* ---------------------------------------------------------------- *)
(* C4                                                               *)
(* ---------------------------------------------------------------- *)
\* C4: every record of an OBJ_HEX file (data and end-of-file) is well formed
\* and the byte sum of count, address high, address low, type, payload and
\* checksum is 0 modulo 256.
C4_ChecksumZero ==
    obj_fmt = OBJ_HEX =>
        LET rs == Records
        IN  \A k \in 1..Len(rs) :
                /\ rs[k].colon
                /\ rs[k].cnt = Len(rs[k].data)
                /\ rs[k].type \in {HEX_DATA, HEX_EOF}
                /\ FieldSum(rs[k]) = 0

C4_Witness ==
    /\ obj_fmt = OBJ_HEX /\ pc = "done"
    /\ \E k \in 1..Len(Records) :
          /\ Records[k].type = HEX_DATA /\ Records[k].cnt = 2
          /\ Records[k].addr = 65535
    /\ Records[Len(Records)].type = HEX_EOF
    /\ Records[Len(Records)].addr = 43981
    /\ Records[Len(Records)].sum = 135

(* ---------------------------------------------------------------- *)
(* Steps                                                            *)
(* ---------------------------------------------------------------- *)
\* number of bytes the step appends to the object file
Appended == Len(objfp') - Len(objfp)

\* the step is a call of obj_writeb / obj_fill_value with a count > 0
WriteStep == lastop'.op \in {"writeb", "fill_value"} /\ lastop'.cnt > 0

\* the step reports error i exactly once
Reported(i) ==
    /\ errors' = errors + 1
    /\ IF pass = 1 THEN errfp' = Append(errfp, i) /\ errnum' = errnum
                   ELSE errnum' = i /\ errfp' = errfp

(* ---------------------------------------------------------------- *)
(* C5                                                               *)
(* ---------------------------------------------------------------- *)
\* C5 as stated: OBJ_BIN / OBJ_MOS: no call lowers bin_addr, and after every
\* call bin_addr <= curr_addr.
C5_AsStated ==
    [][IsBinFmt => (bin_addr' >= bin_addr /\ bin_addr' <= curr_addr')]_vars

\* C5 amended: obj_writeb, obj_fill, obj_fill_value and obj_end advance
\* bin_addr by the number of bytes they append (mod 65536), so they lower it
\* only by wrapping round; obj_org changes bin_addr only while a load address
\* is set and bin_addr is below it, and then sets it to the new address;
\* bin_addr <= curr_addr is kept by every call but an obj_org to a lower
\* address, as long as curr_addr does not wrap round.
C5_Cursor ==
    [][IsBinFmt =>
        /\ lastop'.op \in {"writeb", "fill", "fill_value", "end"} =>
              /\ bin_addr' = WordAdd(bin_addr, Appended)
              /\ bin_addr + Appended < WordMod => bin_addr' >= bin_addr
        /\ lastop'.op = "org" =>
              bin_addr' = IF load_flag /\ bin_addr < load_addr THEN curr_addr'
                                                               ELSE bin_addr
        /\ lastop'.op = "header" => bin_addr' = bin_addr
        /\ ( /\ bin_addr <= curr_addr
             /\ ~(lastop'.op = "org" /\ curr_addr' < curr_addr)
             /\ curr_addr + lastop'.cnt < WordMod )
           => bin_addr' <= curr_addr'
      ]_vars

C5_Witness ==
    /\ obj_fmt = OBJ_MOS /\ load_flag
    /\ lastop.op = "fill_value" /\ lastop.cnt > 0
    /\ errors > 0
    /\ bin_addr = curr_addr
    /\ \E i \in 1..Len(objsrc) : objsrc[i] = -1
    /\ objsrc[Len(objsrc)] >= 0

(* ---------------------------------------------------------------- *)
(* C6                                                               *)
(* ---------------------------------------------------------------- *)
\* C6: OBJ_BIN / OBJ_MOS: every obj_writeb / obj_fill_value with a count > 0
\* made while nseq_flag is set reports E_NSQWRT exactly once and leaves
\* curr_addr, bin_addr, nseq_flag and the object file as they are.
C6_NseqWriteRejected ==
    [][(IsBinFmt /\ nseq_flag /\ WriteStep) =>
          /\ Reported(E_NSQWRT)
          /\ UNCHANGED <<curr_addr, bin_addr, nseq_flag, objfp>>
      ]_vars

\* a second rejected write in a row
C6_Witness ==
    /\ IsBinFmt /\ nseq_flag
    /\ lastop.op = "writeb" /\ lastop.cnt > 0
    /\ errors >= 2 /\ errnum = E_NSQWRT
    /\ Len(supplied) > Len(PayloadBin) + 1

(* ---------------------------------------------------------------- *)
(* C7                                                               *)
(* ---------------------------------------------------------------- *)
\* a write before the load address is rejected
C7_Rejected ==
    (IsBinFmt /\ load_flag /\ ~nseq_flag /\ bin_addr < load_addr /\ WriteStep) =>
        /\ Reported(E_BFRORG)
        /\ objfp' = objfp
        /\ bin_addr' = bin_addr
        /\ curr_addr' = (curr_addr + lastop'.cnt) % WordMod

\* the step is a write that follows obj_org(load_addr) after an E_BFRORG
C7_WriteAtLoad ==
    /\ IsBinFmt /\ load_flag
    /\ lastop.op = "org" /\ curr_addr = load_addr /\ bin_addr = load_addr
    /\ errnum = E_BFRORG
    /\ WriteStep

\* the write starts at the load address without any fill byte before it
C7_BodyStarts ==
    /\ errors' = errors
    /\ Appended = lastop'.cnt
    /\ \A i \in (Len(objfp) + 1)..Len(objfp') : objsrc'[i] >= 0
    /\ objsrc'[Len(objfp) + 1] = load_addr

\* C7 as stated: a write made while nseq_flag is clear and bin_addr is below
\* the load address reports E_BFRORG exactly once, appends nothing, leaves
\* bin_addr alone and advances curr_addr by the count; an obj_org(load_addr)
\* and a write after it start the body with no fill bytes.
C7_AsStated == [][C7_Rejected /\ (C7_WriteAtLoad => C7_BodyStarts)]_vars

\* C7 amended: the write after obj_org(load_addr) starts the body if
\* curr_addr was not beyond the load address at that obj_org (nseq_flag clear).
C7_BeforeLoad ==
    [][C7_Rejected /\ ((C7_WriteAtLoad /\ ~nseq_flag) => C7_BodyStarts)]_vars

C7_Witness ==
    /\ IsBinFmt /\ load_flag
    /\ lastop.op = "writeb" /\ lastop.cnt > 0
    /\ errnum = E_BFRORG /\ errors >= 1
    /\ Len(PayloadBin) = lastop.cnt
    /\ PayloadBin[1][1] = load_addr
    /\ \A i \in 1..Len(objsrc) : objsrc[i] # -1

(* ---------------------------------------------------------------- *)
(* C8                                                               *)
(* ---------------------------------------------------------------- *)
\* C8: OBJ_BIN / OBJ_MOS with a load address: no byte whose logical address is
\* below the load address is written to the object file. (Stated for the runs
\* that stay in the lower half of the address space, where no address wraps
\* round.)
C8_NoByteBelowLoad ==
    (IsBinFmt /\ load_flag /\ 2 * maxaddr < WordMod) =>
        \A i \in 1..Len(objfp) : objsrc[i] >= 0 => objsrc[i] >= load_addr

(* ---------------------------------------------------------------- *)
(* C9                                                               *)
(* ---------------------------------------------------------------- *)
\* C9: OBJ_HEX: no call reports an error, whatever the addresses and the load
\* address, and nseq_flag is never changed.
C9_HexNoError ==
    obj_fmt = OBJ_HEX =>
        /\ errors = 0 /\ errnum = E_NOERR /\ errfp = <<>>
        /\ nseq_flag = FALSE

C9_Witness ==
    /\ obj_fmt = OBJ_HEX /\ load_flag
    /\ ~mono
    /\ lastop.op = "writeb" /\ lastop.cnt > 0
    /\ curr_addr < load_addr
    /\ Len(Records) >= 1

(* ---------------------------------------------------------------- *)
(* C10                                                              *)
(* ---------------------------------------------------------------- *)
\* a record without its checksum
Fields(r) == [cnt |-> r.cnt, addr |-> r.addr, type |-> r.type, data |-> r.data]

FieldsOf(f) == LET rs == RecordsOf(f) IN [k \in 1..Len(rs) |-> Fields(rs[k])]

\* the data record of the bytes waiting in hex_buf, if any
Pending ==
    IF hex_cnt # 0
    THEN <<[cnt |-> hex_cnt, addr |-> hex_addr, type |-> HEX_DATA,
            data |-> BufData(hex_buf, hex_cnt)]>>
    ELSE <<>>

\* C10: OBJ_HEX: obj_end appends the record of the waiting bytes, if there are
\* any, and then one record with count 0, type 1 and the start address; no
\* record before it has type 1, so it is the last record and the only one of
\* type 1.
C10_EndOfFile ==
    [][(obj_fmt = OBJ_HEX /\ pc = "gen" /\ pc' = "done") =>
          LET old == FieldsOf(objfp)
          IN  /\ \A k \in 1..Len(old) : old[k].type = HEX_DATA
              /\ FieldsOf(objfp') =
                    old \o Pending
                        \o <<[cnt |-> 0, addr |-> start_addr, type |-> HEX_EOF,
                              data |-> <<>>]>>
      ]_vars

C10_Witness ==
    /\ obj_fmt = OBJ_HEX /\ pc = "done"
    /\ Len(supplied) >= 3
    /\ Len(Records) >= 3
    /\ start_addr = 43981
    /\ Records[Len(Records)].type = HEX_EOF
    /\ Records[Len(Records) - 1].data = <<supplied[Len(supplied)][2]>>

(* ---------------------------------------------------------------- *)
(* C11                                                              *)
(* ---------------------------------------------------------------- *)
\* the three bytes obj_header writes for OBJ_MOS
MosHeader == <<FILL_BYTE, load_addr % ByteMod, load_addr \div ByteMod>>

\* C11: OBJ_MOS with load address L: after obj_end the object file is the
\* header 0xff, L mod 256, L div 256 followed by a body whose i-th byte
\* (i from 0) was written for logical address L + i; obj_header writes
\* nothing for OBJ_BIN and OBJ_HEX.
C11_LoaderBody ==
    /\ (obj_fmt = OBJ_MOS /\ load_flag /\ pc = "done") =>
          /\ Len(objfp) >= 3
          /\ SubSeq(objfp, 1, 3) = MosHeader
          /\ \A i \in 4..Len(objfp) :
                objsrc[i] >= 0 => objsrc[i] = WordAdd(load_addr, i - 4)
    /\ (obj_fmt \in {OBJ_BIN, OBJ_HEX} /\ lastop.op = "header") => objfp = <<>>

(* ---------------------------------------------------------------- *)
(* C12                                                              *)
(* ---------------------------------------------------------------- *)
\* C12: OBJ_HEX: of two flush_hex calls in a row the first one appends exactly
\* one data record, the record of the waiting bytes, when hex_buf is not empty
\* and nothing when it is empty; the second one appends nothing and leaves the
\* state as the first one left it: hex_cnt = 0 and hex_addr = curr_addr.
C12_FlushTwice ==
    obj_fmt = OBJ_HEX =>
        LET h1 == FlushHex(HexState)
            h2 == FlushHex(h1)
        IN  /\ SubSeq(h1.out, 1, Len(objfp)) = objfp
            /\ FieldsOf(SubSeq(h1.out, Len(objfp) + 1, Len(h1.out))) = Pending
            /\ h2 = h1
            /\ h1.cnt = 0
            /\ h1.addr = curr_addr
            /\ h1.cur = curr_addr

\* two bytes are waiting, at an address curr_addr has left
C12_Witness ==
    /\ obj_fmt = OBJ_HEX /\ pc = "gen"
    /\ hex_cnt = 2
    /\ hex_addr + hex_cnt # curr_addr
    /\ Len(Records) >= 1
    /\ Len(RecordsOf(FlushHex(HexState).out)) = Len(Records) + 1
    /\ FlushHex(FlushHex(HexState)).out = FlushHex(HexState).out

(* ---------------------------------------------------------------- *)
(* C13                                                              *)
(* ---------------------------------------------------------------- *)
\* the load gate is closed: load_flag && (bin_addr < load_addr)
Gated == IsBinFmt /\ load_flag /\ bin_addr < load_addr

\* C13: OBJ_BIN / OBJ_MOS with a load address: while bin_addr is below the
\* load address, obj_writeb, obj_fill_value, obj_fill and obj_end append
\* nothing to the object file and leave bin_addr alone; only obj_org changes
\* bin_addr; a write made with nseq_flag clear, or after curr_addr has
\* reached or passed the load address, reports E_BFRORG.
C13_GateClosed ==
    [][Gated =>
          /\ lastop'.op \in {"writeb", "fill_value", "fill", "end"} =>
                (objfp' = objfp /\ bin_addr' = bin_addr)
          /\ bin_addr' # bin_addr => lastop'.op = "org"
          /\ (WriteStep /\ (~nseq_flag \/ curr_addr >= load_addr)) =>
                Reported(E_BFRORG)
      ]_vars

\* a third write in a row is rejected, the one before it having moved
\* curr_addr past the load address
C13_Witness ==
    /\ Gated /\ ~nseq_flag
    /\ lastop.op = "writeb" /\ lastop.cnt > 0
    /\ errors >= 3 /\ errnum = E_BFRORG
    /\ curr_addr - lastop.cnt > load_addr
    /\ bin_addr = 0
    /\ PayloadBin = <<>>

(* ---------------------------------------------------------------- *)
(* C14                                                              *)
(* ---------------------------------------------------------------- *)
\* the step is a write that follows an obj_org which cleared nseq_flag after
\* a write was rejected with E_NSQWRT, the new address being at or beyond
\* the end of what was written before
C14_WriteAfterClear ==
    /\ IsBinFmt /\ lastop.op = "org" /\ ~nseq_flag /\ errnum = E_NSQWRT
    /\ ~Gated /\ bin_addr <= curr_addr
    /\ WriteStep

\* the write is accepted and its bytes are put at their logical addresses
C14_Emitted ==
    /\ errors' = errors
    /\ Appended = (curr_addr - bin_addr) + lastop'.cnt
    /\ \A i \in 1..lastop'.cnt :
          objsrc'[Len(objfp') - lastop'.cnt + i] = WordAdd(curr_addr, i - 1)
    /\ (obj_fmt = OBJ_BIN /\ ~load_flag) => Len(objfp') - lastop'.cnt = curr_addr

\* C14: OBJ_BIN / OBJ_MOS: only obj_org changes nseq_flag, and it sets it
\* exactly when the new address is lower than curr_addr was at the call;
\* so after a write, an obj_org to a lower address and a rejected write, an
\* obj_org to an address beyond all that was written clears nseq_flag and the
\* next write is put into the file at that address.
C14_Latch ==
    [][IsBinFmt =>
          /\ lastop'.op = "org" => nseq_flag' = (curr_addr' < curr_addr)
          /\ lastop'.op # "org" => nseq_flag' = nseq_flag
          /\ C14_WriteAfterClear => C14_Emitted
      ]_vars

\* obj_writeb at 0, obj_org(0), obj_writeb rejected, obj_org(3), obj_writeb
C14_Witness ==
    /\ obj_fmt = OBJ_BIN /\ ~load_flag
    /\ lastop.op = "writeb" /\ lastop.cnt = 1
    /\ errors = 1 /\ errnum = E_NSQWRT /\ ~nseq_flag
    /\ Len(supplied) = 3
    /\ objsrc = <<0, -1, -1, 3>>
    /\ objfp[4] = supplied[3][2]

(* ---------------------------------------------------------------- *)
(* C15                                                              *)
(* ---------------------------------------------------------------- *)
\* the bytes waiting in hex_buf with the addresses their record will give them
Waiting == [k \in 1..hex_cnt |-> <<WordAdd(hex_addr, k - 1), hex_buf[k - 1]>>]

\* at every hex_buf[hex_cnt++] = ... of the loop over data, started in h,
\* hex_addr + hex_cnt is curr_addr (mod 65536)
RECURSIVE AppendsAtCurr(_, _)
AppendsAtCurr(h, data) ==
    \/ data = <<>>
    \/ LET f == IF h.cnt >= hexlen THEN FlushHex(h) ELSE h
       IN  /\ WordAdd(f.addr, f.cnt) = f.cur
           /\ AppendsAtCurr(HexPutByte(h, Head(data)), Tail(data))

\* C15: OBJ_HEX: whenever obj_writeb / obj_fill_value puts a byte into
\* hex_buf, hex_addr + hex_cnt is the logical address of that byte (hex_buf is
\* flushed first otherwise); so the k-th payload byte (k from 0) of every data
\* record with address A, and of the record hex_buf will become, is a byte
\* that was handed over at logical address (A + k) mod 65536.
C15_RecordAddress ==
    obj_fmt = OBJ_HEX =>
        /\ PayloadOf(Records) \o Waiting = supplied
        /\ pc = "gen" =>
              \A data \in OpsSeqs :
                  AppendsAtCurr(IF hex_addr + hex_cnt # curr_addr
                                THEN FlushHex(HexState) ELSE HexState, data)
        /\ (lastop.op \in {"writeb", "fill_value"} /\ lastop.cnt > 0) =>
              WordAdd(hex_addr, hex_cnt) = curr_addr

\* a record that runs over the end of the address space has been written
\* because the next byte came after a gap
C15_Witness ==
    /\ obj_fmt = OBJ_HEX /\ hexlen = 2
    /\ lastop.op = "writeb" /\ lastop.cnt = 1
    /\ Len(Records) = 1
    /\ Records[1].addr = 65535 /\ Records[1].cnt = 2
    /\ supplied[2][1] = 0
    /\ hex_cnt = 1 /\ hex_addr = 3

(* ---------------------------------------------------------------- *)
(* C16                                                              *)
(* ---------------------------------------------------------------- *)
\* byte counts of the data records of the file, in file order
DataCounts ==
    LET ds == SelectSeq(Records, LAMBDA r : r.type = HEX_DATA)
    IN  [k \in 1..Len(ds) |-> ds[k].cnt]

\* n bytes cut into records of len bytes and a rest
FullThenRest(n, len) ==
    Rep(n \div len, len) \o (IF n % len # 0 THEN <<n % len>> ELSE <<>>)

\* the bytes handed over have consecutive addresses modulo 65536
Contiguous ==
    \A i \in 1..(Len(supplied) - 1) : supplied[i + 1][1] = WordAdd(supplied[i][1], 1)

\* the same, and no address follows 0xffff
ContiguousNoWrap ==
    \A i \in 1..(Len(supplied) - 1) : supplied[i + 1][1] = supplied[i][1] + 1

\* hex_buf never holds more than hexlen bytes and every data record has
\* between 1 and hexlen bytes
C16_Bounded ==
    /\ hex_cnt <= hexlen
    /\ LET rs == Records
       IN  \A k \in 1..Len(rs) :
               rs[k].type = HEX_DATA => rs[k].cnt \in 1..hexlen

\* C16 as stated: OBJ_HEX with hexlen >= 1: hex_buf holds at most hexlen
\* bytes, every data record has 1 to hexlen bytes, and n bytes with
\* consecutive addresses followed by obj_end give data records of hexlen
\* bytes each and a last one of n mod hexlen bytes if that is not 0.
C16_AsStated ==
    obj_fmt = OBJ_HEX =>
        /\ C16_Bounded
        /\ (pc = "done" /\ Contiguous) =>
              DataCounts = FullThenRest(Len(supplied), hexlen)

\* C16 amended: the same, for consecutive addresses that do not run from
\* 0xffff over to 0.
C16_RecordLength ==
    obj_fmt = OBJ_HEX =>
        /\ C16_Bounded
        /\ (pc = "done" /\ ContiguousNoWrap) =>
              DataCounts = FullThenRest(Len(supplied), hexlen)

\* five bytes from address 1 on, two per record
C16_Witness ==
    /\ obj_fmt = OBJ_HEX /\ pc = "done" /\ hexlen = 2
    /\ Len(supplied) = 5 /\ supplied[1][1] = 1
    /\ ContiguousNoWrap
    /\ DataCounts = <<2, 2, 1>>

(* ---------------------------------------------------------------- *)
(* C17                                                              *)
(* ---------------------------------------------------------------- *)
\* what obj_writeb and obj_fill_value may change
Emitter == <<nseq_flag, curr_addr, bin_addr, hex_addr, hex_cnt, hex_buf, objfp,
             errors, errnum, errfp>>

\* C17: in every format and every state, obj_fill_value(count, value) does
\* what obj_writeb does with ops holding count copies of value as a BYTE: the
\* same error, the same bytes and records appended, the same curr_addr,
\* bin_addr, nseq_flag and hex buffer; obj_fill_value(0, v) and obj_writeb(0)
\* change nothing.
C17_FillValueIsWrite ==
    [][/\ lastop'.op = "fill_value" =>
             \E value \in FillVals : WritebBody(Rep(lastop'.cnt, value % ByteMod))
       /\ (lastop'.op \in {"fill_value", "writeb"} /\ lastop'.cnt = 0) =>
             UNCHANGED Emitter
      ]_vars

\* obj_fill_value has written two bytes after a gap it filled
C17_Witness ==
    /\ obj_fmt = OBJ_MOS
    /\ lastop.op = "fill_value" /\ lastop.cnt = 2
    /\ Len(objfp) >= 6
    /\ objsrc[Len(objfp) - 2] = -1
    /\ objfp[Len(objfp) - 1] = 171 /\ objfp[Len(objfp)] = 171
    /\ errors > 0

(* ---------------------------------------------------------------- *)
(* C18                                                              *)
(* ---------------------------------------------------------------- *)
\* obj_fill appends nothing, reports nothing and changes only curr_addr
C18_Frame ==
    lastop'.op = "fill" =>
        /\ UNCHANGED <<objfp, errors, errnum, errfp, bin_addr, nseq_flag,
                       hex_addr, hex_cnt, hex_buf>>
        /\ curr_addr' = IF IsBinFmt /\ nseq_flag THEN curr_addr
                        ELSE WordAdd(curr_addr, lastop'.cnt)

\* the step is an OBJ_HEX write that follows an obj_fill with a count > 0
C18_WriteAfterSkip ==
    /\ obj_fmt = OBJ_HEX
    /\ lastop.op = "fill" /\ lastop.cnt > 0
    /\ WriteStep

\* the records the step appends, with the one hex_buf will become
C18_NewRecords ==
    FieldsOf(SubSeq(objfp', Len(objfp) + 1, Len(objfp'))) \o Pending'

\* the bytes that were waiting have become a record of their own and the
\* record after it starts at curr_addr
C18_StartsRecord ==
    LET new == C18_NewRecords
    IN  IF hex_cnt # 0
        THEN new[1] = Pending[1] /\ new[2].addr = curr_addr
        ELSE new[1].addr = curr_addr

\* C18 as stated: obj_fill(count) never appends to the object file, never
\* reports an error, never changes bin_addr, nseq_flag or the hex buffer; for
\* OBJ_BIN / OBJ_MOS it leaves curr_addr alone when nseq_flag is set and adds
\* count (mod 65536) otherwise; for OBJ_HEX it always adds count, and the
\* next write after an obj_fill with a count > 0 starts a new data record at
\* the new address.
C18_AsStated ==
    [][C18_Frame /\ (C18_WriteAfterSkip => C18_StartsRecord)]_vars

\* C18 amended: the next write starts a new data record at the new address
\* unless the new address is hex_addr + hex_cnt and bytes are waiting, fewer
\* than hexlen; then the write goes on with the record of the waiting bytes.
C18_Skip ==
    [][/\ C18_Frame
       /\ ( /\ C18_WriteAfterSkip
            /\ (hex_addr + hex_cnt # curr_addr \/ hex_cnt = 0 \/ hex_cnt >= hexlen) ) =>
              C18_StartsRecord
       /\ ( /\ C18_WriteAfterSkip /\ hex_addr + hex_cnt = curr_addr
            /\ hex_cnt # 0 /\ hex_cnt < hexlen ) =>
              LET new == C18_NewRecords
              IN  /\ new[1].addr = hex_addr
                  /\ new[1].cnt > hex_cnt
                  /\ SubSeq(new[1].data, 1, hex_cnt) = Pending[1].data
      ]_vars

\* a byte at 0, obj_fill(1), a byte at 2
C18_Witness ==
    /\ obj_fmt = OBJ_HEX /\ nops = 3
    /\ lastop.op \in {"writeb", "fill_value"}
    /\ Len(supplied) = 2 /\ supplied[1][1] = 0 /\ supplied[2][1] = 2
    /\ Len(Records) = 1 /\ Records[1].addr = 0
    /\ hex_addr = 2 /\ hex_cnt = 1

(* ---------------------------------------------------------------- *)
(* C19                                                              *)
(* ---------------------------------------------------------------- *)
\* C19: OBJ_BIN / OBJ_MOS: obj_end appends 0xff bytes from bin_addr up to
\* curr_addr (none if bin_addr >= curr_addr) exactly when filling is not
\* switched off and it is not the case that a load address is set with
\* bin_addr below it; otherwise it appends nothing and changes neither
\* bin_addr nor curr_addr; after an obj_end that fills, bin_addr >= curr_addr.
C19_EndFill ==
    [][(IsBinFmt /\ pc = "gen" /\ pc' = "done") =>
          IF ~nofill_flag /\ ~(load_flag /\ bin_addr < load_addr)
          THEN /\ objfp' = objfp \o Rep(Max(curr_addr - bin_addr, 0), FILL_BYTE)
               /\ bin_addr' = Max(bin_addr, curr_addr)
               /\ curr_addr' = curr_addr
               /\ bin_addr' >= curr_addr'
          ELSE UNCHANGED <<objfp, bin_addr, curr_addr>>
      ]_vars

\* obj_end has filled the file of a run with a load address
C19_Witness ==
    /\ IsBinFmt /\ load_flag /\ ~nofill_flag
    /\ pc = "done"
    /\ Len(objsrc) >= 2
    /\ objsrc[Len(objsrc)] = -1 /\ objsrc[Len(objsrc) - 1] = -1
    /\ PayloadBin # <<>>
    /\ bin_addr = curr_addr

(* ---------------------------------------------------------------- *)
(* C20                                                              *)
(* ---------------------------------------------------------------- *)
\* the payloads of the data records, one after the other
RECURSIVE DataOf(_)
DataOf(recs) ==
    IF recs = <<>> THEN <<>>
    ELSE (IF Head(recs).type = HEX_DATA THEN Head(recs).data ELSE <<>>)
             \o DataOf(Tail(recs))

\* the bytes handed to obj_writeb / obj_fill_value, in call order
SuppliedBytes == [i \in 1..Len(supplied) |-> supplied[i][2]]

\* C20: OBJ_HEX: after obj_end, whatever the order of the addresses, the
\* payloads of the data records in file order are the bytes handed to
\* obj_writeb / obj_fill_value in call order, none dropped, doubled or moved,
\* and no byte is left in hex_buf.
C20_AllBytesInOrder ==
    (obj_fmt = OBJ_HEX /\ pc = "done") =>
        /\ DataOf(Records) = SuppliedBytes
        /\ hex_cnt = 0

\* the same two addresses were written twice, with an obj_org back between
C20_Witness ==
    /\ obj_fmt = OBJ_HEX /\ pc = "done" /\ ~mono
    /\ Len(supplied) = 4
    /\ supplied[1][1] = supplied[3][1] /\ supplied[2][1] = supplied[4][1]
    /\ supplied[1][2] # supplied[3][2]
    /\ DataOf(Records) = SuppliedBytes
====
